---------------------------- MODULE Spec2Model ----------------------------
(***************************************************************************)
(* Opening-book compilation in Polygot: the scripts that aggregate,        *)
(* normalise, merge and serialise a Book, and the one that collects games. *)
(*                                                                         *)
(*   polygot.py  build_book_file, Book.merge_file, Book.normalize_weights, *)
(*               Book.save_as_polyglot                                     *)
(*   CREATE.py   build_book_file (castling correction), normalize_weights, *)
(*               save_as_polyglot                                          *)
(*   merger.py   merge_polyglot_books, Book.add_move, Book.save            *)
(*   pngmaker.py fetch_bot_games, split_and_filter_games, main on the      *)
(*               thread pool                                               *)
(*                                                                         *)
(* A Python dict is modelled as a sequence in insertion order, an output   *)
(* record as the 16 bytes the code concatenates, and the file at the       *)
(* output path as the sequence of records it holds.                        *)
(***************************************************************************)
EXTENDS Integers, Sequences, FiniteSets, TLC

VARIABLES
    prog,      \* the script that runs: polygot, CREATE, merger, pipeline, pngmaker
    pc,        \* its control point
    book,      \* Book.positions, in dict insertion order
    ngames,    \* games read by build_book_file so far
    nmerges,   \* merge_file calls made so far (polygot.py)
    folder,    \* the .bin files to merge: name -> sequence of 16-byte records
    todo,      \* merger.py: names of book_files not yet visited
    readlog,   \* history: name -> number of entries passed to the Book
    entries,   \* the local list `entries` of the save operation
    written,   \* number of entries written to the open file
    out,       \* the file at the output path: [exists, data]
    raw,       \* history: the Book before normalize_weights / single-pass Book
    ev,        \* history: the last operation and its input
    seen_games,  \* pngmaker.py: the module-level set of game ids
    wpc,         \* pngmaker.py: bot -> control point of its fetch_bot_games call
    attempt,     \* pngmaker.py: bot -> the loop variable `attempt`
    idx,         \* pngmaker.py: bot -> index of the game split_and_filter_games is at
    filtered,    \* pngmaker.py: bot -> the local list `filtered`
    all_games    \* pngmaker.py: the list main collects

fetchvars == <<seen_games, wpc, attempt, idx, filtered, all_games>>

vars == <<prog, pc, book, ngames, nmerges, folder, todo, readlog, entries,
          written, out, raw, ev, fetchvars>>

-----------------------------------------------------------------------------
(* Bounds of the model *)

MaxGames == 2
MaxMerges == 1
MaxBots == 3

-----------------------------------------------------------------------------
(* Program constants *)

POLYGLOT_MAX_WEIGHT == 65535
MAX_BOOK_WEIGHT_POLYGOT == 1000000
MAX_BOOK_WEIGHT_CREATE == 10000
MAX_BOOK_PLIES_POLYGOT == 300
MAX_BOOK_PLIES_CREATE == 80

MAX_BOOK_WEIGHT(p) == IF p = "CREATE" THEN MAX_BOOK_WEIGHT_CREATE ELSE MAX_BOOK_WEIGHT_POLYGOT
MAX_BOOK_PLIES(p) == IF p = "CREATE" THEN MAX_BOOK_PLIES_CREATE ELSE MAX_BOOK_PLIES_POLYGOT

\* chess.WHITE / chess.BLACK
WHITE == TRUE
BLACK == FALSE

\* the piece types of python-chess; a move without promotion has None (0 here)
PieceType == [none |-> 0, pawn |-> 1, knight |-> 2, bishop |-> 3, rook |-> 4,
              queen |-> 5, king |-> 6]

\* chess.parse_square: file a..h = 0..7, rank 1..8 = 0..7
Square(file, rank) == file + 8 * rank
A1 == Square(0, 0)
C1 == Square(2, 0)
E1 == Square(4, 0)
G1 == Square(6, 0)
H1 == Square(7, 0)
A8 == Square(0, 7)
C8 == Square(2, 7)
E8 == Square(4, 7)
G8 == Square(6, 7)
H8 == Square(7, 7)
E2 == Square(4, 1)
E4 == Square(4, 3)
E7 == Square(4, 6)
E5 == Square(4, 4)

-----------------------------------------------------------------------------
(* Moves, UCI strings, fingerprints, bytes *)

Min(a, b) == IF a < b THEN a ELSE b
Max(a, b) == IF a > b THEN a ELSE b

Move(f, t, p) == [from_square |-> f, to_square |-> t, promotion |-> p]

\* move.uci(): source square, destination square, promotion letter.  The
\* string is modelled as the triple it spells.
Uci(m) == <<m.from_square, m.to_square, m.promotion>>

\* chess.Move.from_uci(uci)
FromUci(u) == Move(u[1], u[2], u[3])

\* f"{key:016x}": 16 hex digits, most significant first.  Fingerprints of
\* the model are below 16^7, so the nine leading digits are 0.
format_zobrist_key_hex(key) ==
    [i \in 1..16 |-> IF i <= 9 THEN 0 ELSE (key \div (16 ^ (16 - i))) % 16]

\* bytes.fromhex(key_hex): 8 bytes
BytesFromHex(h) == [i \in 1..8 |-> 16 * h[2 * i - 1] + h[2 * i]]

\* int.to_bytes(2, "big"); the caller guarantees 0 <= n <= 65535
ToBytes2(n) == <<n \div 256, n % 256>>

\* big-endian integer of the bytes b[first..last]
RECURSIVE FromBytes(_, _, _)
FromBytes(b, first, last) ==
    IF last < first THEN 0
    ELSE 256 * FromBytes(b, first, last - 1) + b[last]

\* Python's comparison of two bytes objects of the same length
RECURSIVE BytesLess(_, _)
BytesLess(a, b) ==
    IF Len(a) = 0 \/ Len(b) = 0 THEN Len(a) < Len(b)
    ELSE IF a[1] # b[1] THEN a[1] < b[1]
    ELSE BytesLess(Tail(a), Tail(b))

\* Python's comparison of two pairs of bytes objects
PairLess(x, y) == BytesLess(x[1], y[1]) \/ (x[1] = y[1] /\ BytesLess(x[2], y[2]))

-----------------------------------------------------------------------------
(* Book: dict of positions, each a dict of moves, in insertion order *)

PosIndex(positions, key_hex) ==
    IF \E i \in 1..Len(positions) : positions[i].key = key_hex
    THEN CHOOSE i \in 1..Len(positions) : positions[i].key = key_hex
    ELSE 0

MoveIndex(moves, uci) ==
    IF \E j \in 1..Len(moves) : moves[j].uci = uci
    THEN CHOOSE j \in 1..Len(moves) : moves[j].uci = uci
    ELSE 0

\* self.positions.setdefault(zobrist_key_hex, BookPosition())
get_position(positions, key_hex) ==
    IF PosIndex(positions, key_hex) # 0 THEN positions
    ELSE Append(positions, [key |-> key_hex, moves |-> <<>>])

\* self.moves.setdefault(uci, BookMove()): weight 0, move None
get_move(moves, uci) ==
    IF MoveIndex(moves, uci) # 0 THEN moves
    ELSE Append(moves, [uci |-> uci, weight |-> 0, move |-> "None"])

\* bm = book.get_position(key_hex).get_move(uci); bm.move = move;
\* bm.weight += w
AddWeight(positions, key_hex, uci, move, w) ==
    LET ps == get_position(positions, key_hex)
        i  == PosIndex(ps, key_hex)
        ms == get_move(ps[i].moves, uci)
        j  == MoveIndex(ms, uci)
    IN  [ps EXCEPT ![i].moves =
            [ms EXCEPT ![j] = [uci |-> uci, weight |-> ms[j].weight + w,
                               move |-> move]]]

\* an add_move that stores the entry's weight instead of adding it
add_move_overwrite(positions, key_hex, move, weight) ==
    LET ps  == get_position(positions, key_hex)
        i   == PosIndex(ps, key_hex)
        uci == Uci(move)
        j   == MoveIndex(ps[i].moves, uci)
    IN  IF j # 0
        THEN [ps EXCEPT ![i].moves[j].weight = weight]
        ELSE [ps EXCEPT ![i].moves = Append(@, [uci |-> uci, weight |-> weight])]

\* merger.py Book.add_move: pos[uci] = pos.get(uci, 0) + weight
add_move(positions, key_hex, move, weight) ==
    LET ps  == get_position(positions, key_hex)
        i   == PosIndex(ps, key_hex)
        uci == Uci(move)
        j   == MoveIndex(ps[i].moves, uci)
    IN  IF j # 0
        THEN [ps EXCEPT ![i].moves[j].weight = @ + weight]
        ELSE [ps EXCEPT ![i].moves = Append(@, [uci |-> uci, weight |-> 0 + weight])]

\* the weight a Book holds for (key_hex, uci); 0 when it holds none
WeightOf(positions, key_hex, uci) ==
    LET i == PosIndex(positions, key_hex)
    IN  IF i = 0 THEN 0
        ELSE LET j == MoveIndex(positions[i].moves, uci)
             IN  IF j = 0 THEN 0 ELSE positions[i].moves[j].weight

\* the (key_hex, uci) pairs a Book holds
PairsOf(positions) ==
    UNION {{<<positions[i].key, positions[i].moves[j].uci>> :
                j \in 1..Len(positions[i].moves)} : i \in 1..Len(positions)}

RECURSIVE SumWeights(_)
SumWeights(moves) ==
    IF moves = <<>> THEN 0 ELSE Head(moves).weight + SumWeights(Tail(moves))

-----------------------------------------------------------------------------
(* Games: what chess.pgn.read_game hands to build_book_file *)

\* One ply: the Zobrist hash of the board before the move, board.turn, the
\* move, and whether the piece on the move's source square is a king.
Ply(key, turn, move, king) ==
    [key |-> key, turn |-> turn, move |-> move, king |-> king]

WhiteE2E4 == Ply(291, WHITE, Move(E2, E4, PieceType.none), FALSE)
WhiteCastles == Ply(291, WHITE, Move(E1, G1, PieceType.none), TRUE)
BlackE7E5 == Ply(4660, BLACK, Move(E7, E5, PieceType.none), FALSE)
BlackCastles == Ply(4660, BLACK, Move(E8, G8, PieceType.none), TRUE)

Game(result, plies) == [result |-> result, plies |-> plies]

\* the games a PGN file can hold: every result (headers.get("Result", "*")
\* reads a missing tag as "*"), both movers, two moves in one position
Games ==
    { Game("1-0", <<WhiteE2E4, BlackE7E5>>),
      Game("0-1", <<WhiteCastles, BlackE7E5>>),
      Game("1/2-1/2", <<WhiteE2E4, BlackCastles>>),
      Game("*", <<WhiteE2E4, BlackE7E5>>),
      Game("1-0", <<WhiteCastles>>) }

\* LichessGame.score
score(result) ==
    IF result = "1-0" THEN 2 ELSE IF result = "1/2-1/2" THEN 1 ELSE 0

\* a scorer that takes Black's share from 1 instead of 2
ContributionFromOne(sc, turn) == IF turn = WHITE THEN sc ELSE 1 - sc

\* score if board.turn == chess.WHITE else (2 - score)
Contribution(sc, turn) == IF turn = WHITE THEN sc ELSE 2 - sc

\* CREATE.py correct_castling_uci
correct_castling_uci(uci, king) ==
    IF king
    THEN IF uci = Uci(Move(E1, G1, PieceType.none)) THEN Uci(Move(E1, H1, PieceType.none))
         ELSE IF uci = Uci(Move(E1, C1, PieceType.none)) THEN Uci(Move(E1, A1, PieceType.none))
         ELSE IF uci = Uci(Move(E8, G8, PieceType.none)) THEN Uci(Move(E8, H8, PieceType.none))
         ELSE IF uci = Uci(Move(E8, C8, PieceType.none)) THEN Uci(Move(E8, A8, PieceType.none))
         ELSE uci
    ELSE uci

\* the body of build_book_file's loop over game.mainline_moves()
AggregatePly(p, positions, ply, sc) ==
    LET uci  == IF p = "CREATE" THEN correct_castling_uci(Uci(ply.move), ply.king)
                ELSE Uci(ply.move)
        move == IF p = "CREATE" THEN FromUci(uci) ELSE ply.move
    IN  AddWeight(positions, format_zobrist_key_hex(ply.key), uci, move,
                  Contribution(sc, ply.turn))

\* the loop over game.mainline_moves(), left at MAX_BOOK_PLIES
RECURSIVE AggregatePlies(_, _, _, _, _)
AggregatePlies(p, positions, plies, ply, sc) ==
    IF plies = <<>> \/ ply >= MAX_BOOK_PLIES(p) THEN positions
    ELSE AggregatePlies(p, AggregatePly(p, positions, Head(plies), sc),
                        Tail(plies), ply + 1, sc)

\* one iteration of build_book_file's loop over the games of the PGN file
AggregateGame(p, positions, game) ==
    AggregatePlies(p, positions, game.plies, 0, score(game.result))

-----------------------------------------------------------------------------
(* normalize_weights *)

\* <<q, r>> with w * t = q * d + r and 0 <= r < d, one decimal digit of t at
\* a time so that no intermediate product leaves the integers TLC computes in
RECURSIVE MulDiv(_, _, _)
MulDiv(w, t, d) ==
    IF t = 0 THEN <<0, 0>>
    ELSE LET h == MulDiv(w, t \div 10, d)
             x == 10 * h[2] + (t % 10) * w
         IN  <<10 * h[1] + (x \div d), x % d>>

\* int(bm.weight / total_weight * MAX_BOOK_WEIGHT).  The double-precision
\* quotient and product truncate to floor(w * T / total) for every weight
\* and total the model reaches.
Scale(w, total, target) == MulDiv(w, target, total)[1]

\* a normalisation without the floor of 1, as CREATE.py has it
NormalizedWeightNoFloor(p, w, total) == Scale(w, total, MAX_BOOK_WEIGHT(p))

\* the new weight of one BookMove of a position whose total is positive
NormalizedWeight(p, w, total) ==
    LET scaled == Scale(w, total, MAX_BOOK_WEIGHT(p))
    IN  IF p = "polygot" /\ scaled < 1 THEN 1 ELSE scaled

NormalizePosition(p, pos) ==
    LET total_weight == SumWeights(pos.moves)
    IN  IF total_weight > 0
        THEN [pos EXCEPT !.moves =
                [j \in 1..Len(pos.moves) |->
                    [pos.moves[j] EXCEPT !.weight =
                        NormalizedWeight(p, pos.moves[j].weight, total_weight)]]]
        ELSE pos

normalize_weights(p, positions) ==
    [i \in 1..Len(positions) |-> NormalizePosition(p, positions[i])]

-----------------------------------------------------------------------------
(* save_as_polyglot, save: the 16-byte records and their order *)

\* an encoder that shifts move.promotion itself, not move.promotion - 1
mi_promotion_unshifted(move) ==
    move.to_square + move.from_square * 64 +
    (IF move.promotion # PieceType.none THEN move.promotion * 4096 ELSE 0)

\* mi = move.to_square + (move.from_square << 6), plus
\* (move.promotion - 1) << 12 when move.promotion is set
mi(move) ==
    move.to_square + move.from_square * 64 +
    (IF move.promotion # PieceType.none THEN (move.promotion - 1) * 4096 ELSE 0)

\* zbytes + mbytes + wbytes + lbytes
Entry(zbytes, move, weight) ==
    zbytes \o ToBytes2(mi(move)) \o ToBytes2(weight) \o <<0, 0, 0, 0>>

\* the weight save writes for a BookMove
\*   polygot.py: min(max(bm.weight, 1), POLYGLOT_MAX_WEIGHT)
\*   CREATE.py:  bm.weight
\*   merger.py:  min(weight, POLYGLOT_MAX_WEIGHT)
SavedWeight(p, weight) ==
    IF p = "polygot" THEN Min(Max(weight, 1), POLYGLOT_MAX_WEIGHT)
    ELSE IF p = "CREATE" THEN weight
    ELSE Min(weight, POLYGLOT_MAX_WEIGHT)

\* `if bm.weight <= 0: continue` of save_as_polyglot; Book.save of merger.py
\* has no such line
Skipped(p, weight) == p # "merger" /\ weight <= 0

\* the move save encodes: bm.move, or Move.from_uci(uci) in merger.py
SavedMove(p, bm) == IF p = "merger" THEN FromUci(bm.uci) ELSE bm.move

\* int.to_bytes(2, ...) raises OverflowError outside 0..65535
ToBytesRaises(n) == n < 0 \/ n > 65535

RECURSIVE EntriesOfMoves(_, _, _)
EntriesOfMoves(p, zbytes, moves) ==
    IF moves = <<>> THEN <<>>
    ELSE LET bm == Head(moves)
         IN  (IF Skipped(p, bm.weight) THEN <<>>
              ELSE <<Entry(zbytes, SavedMove(p, bm), SavedWeight(p, bm.weight))>>)
             \o EntriesOfMoves(p, zbytes, Tail(moves))

\* the list `entries` before it is sorted
RECURSIVE EntriesOfBook(_, _)
EntriesOfBook(p, positions) ==
    IF positions = <<>> THEN <<>>
    ELSE EntriesOfMoves(p, BytesFromHex(Head(positions).key), Head(positions).moves)
         \o EntriesOfBook(p, Tail(positions))

\* whether building `entries` raises: a weight that to_bytes rejects
BuildRaises(p, positions) ==
    \E i \in 1..Len(positions) : \E j \in 1..Len(positions[i].moves) :
        /\ ~Skipped(p, positions[i].moves[j].weight)
        /\ ToBytesRaises(SavedWeight(p, positions[i].moves[j].weight))

\* key=lambda e: (e[:8], e[10:12])
SortKey(e) == <<SubSeq(e, 1, 8), SubSeq(e, 11, 12)>>

\* list.sort is stable: x, which followed every element of the sorted list
\* s in the original order, goes before the first element whose key is
\* greater than its own
InsertSorted(s, x) ==
    LET later == {i \in 1..Len(s) : PairLess(SortKey(x), SortKey(s[i]))}
        at    == IF later = {} THEN Len(s) + 1
                 ELSE CHOOSE i \in later : \A k \in later : i <= k
    IN  SubSeq(s, 1, at - 1) \o <<x>> \o SubSeq(s, at, Len(s))

RECURSIVE SortEntries(_)
SortEntries(es) ==
    IF es = <<>> THEN <<>>
    ELSE InsertSorted(SortEntries(SubSeq(es, 1, Len(es) - 1)), es[Len(es)])

-----------------------------------------------------------------------------
(* chess.polyglot.open_reader: the entries of a .bin file *)

\* struct ">QHHI": key, raw_move, weight, learn
ReadEntry(rec) ==
    [key      |-> FromBytes(rec, 1, 8),
     raw_move |-> FromBytes(rec, 9, 10),
     weight   |-> FromBytes(rec, 11, 12)]

\* entry.move(), the method of the python-chess releases that have it:
\* destination in bits 0-5, source in bits 6-11, promotion in bits 12-14,
\* and the king-takes-rook castling squares turned into the king's move
DecodeMove(raw_move) ==
    LET to_square      == raw_move % 64
        from_square    == (raw_move \div 64) % 64
        promotion_part == (raw_move \div 4096) % 8
        promotion      == IF promotion_part # 0 THEN promotion_part + 1
                          ELSE PieceType.none
    IN  IF from_square = E1 /\ to_square = H1 THEN Move(E1, G1, PieceType.none)
        ELSE IF from_square = E1 /\ to_square = A1 THEN Move(E1, C1, PieceType.none)
        ELSE IF from_square = E8 /\ to_square = H8 THEN Move(E8, G8, PieceType.none)
        ELSE IF from_square = E8 /\ to_square = A8 THEN Move(E8, C8, PieceType.none)
        ELSE Move(from_square, to_square, promotion)

\* a record of a .bin file as some other tool wrote it
Rec(key, raw_move, weight) ==
    BytesFromHex(format_zobrist_key_hex(key)) \o ToBytes2(raw_move)
        \o ToBytes2(weight) \o <<0, 0, 0, 0>>

-----------------------------------------------------------------------------
(* The .bin files the scripts can be given *)

\* the 16 single and double pawn pushes from the second rank, each with the
\* largest weight the format holds, in ascending order of the move field
RECURSIVE PawnPushes(_, _)
PawnPushes(key, file) ==
    IF file > 7 THEN <<>>
    ELSE <<Rec(key, Square(file, 2) + 64 * Square(file, 1), POLYGLOT_MAX_WEIGHT),
           Rec(key, Square(file, 3) + 64 * Square(file, 1), POLYGLOT_MAX_WEIGHT)>>
         \o PawnPushes(key, file + 1)

RawE1H1 == H1 + 64 * E1
RawE2E4 == E4 + 64 * E2
RawE7E5 == E5 + 64 * E7
RawG1F3 == Square(5, 2) + 64 * G1

\* name -> records.  a.bin holds a castling move as king-takes-rook and an
\* entry of weight 0; b.bin and c.bin together exceed the 16-bit weight;
\* wide.bin is a position with seventeen moves, one of them rare.
Library ==
    [name \in {"a.bin", "b.bin", "c.bin", "wide.bin"} |->
        CASE name = "a.bin" -> <<Rec(291, RawE1H1, 7), Rec(291, RawE2E4, 3),
                                 Rec(4660, RawE7E5, 0)>>
          [] name = "b.bin" -> <<Rec(291, RawE2E4, 40000), Rec(4660, RawE7E5, 2)>>
          [] name = "c.bin" -> <<Rec(291, RawE2E4, 40000)>>
          [] name = "wide.bin" -> <<Rec(291, RawG1F3, 1)>> \o PawnPushes(291, 0)]

\* what BOOK_FOLDER can hold when merger.py starts
FolderNames == {"a.bin", "b.bin", "c.bin"}

\* what Book.merge_file of polygot.py can be pointed at
MergeNames == {"a.bin", "wide.bin"}

\* the file whose read raises under Book.merge_file
RaisingNames == {"a.bin"}

\* a complete book left at the output path by an earlier run
OldBook == <<Rec(291, RawE2E4, 9)>>
FileOf(data) == [exists |-> TRUE, data |-> data]

\* the first n entries of a file added to a Book: the loop of merge_file
\* (polygot.py) or of merge_polyglot_books (merger.py)
RECURSIVE MergeEntries(_, _, _, _)
MergeEntries(p, positions, recs, n) ==
    IF n = 0 THEN positions
    ELSE LET before  == MergeEntries(p, positions, recs, n - 1)
             entry   == ReadEntry(recs[n])
             key_hex == format_zobrist_key_hex(entry.key)
             move    == DecodeMove(entry.raw_move)
         IN  IF p = "merger" THEN add_move(before, key_hex, move, entry.weight)
             ELSE AddWeight(before, key_hex, Uci(move), move, entry.weight)

-----------------------------------------------------------------------------
(* pngmaker.py: the bots and the module state after import *)

BOTS == <<"NimsiluBot", "MaggiChess16", "NNUE_Drift", "Endogenetic-Bot",
          "ToromBot", "AttackKing_Bot">>

MAX_WORKERS == 3

\* the bots whose games are fetched
Bots == {BOTS[i] : i \in 1..Min(MaxBots, Len(BOTS))}

\* seen_games = set(); no call of fetch_bot_games has started
FetchIdle ==
    /\ seen_games = {}
    /\ wpc = [b \in Bots |-> "queued"]
    /\ attempt = [b \in Bots |-> 0]
    /\ idx = [b \in Bots |-> 0]
    /\ filtered = [b \in Bots |-> <<>>]
    /\ all_games = <<>>

-----------------------------------------------------------------------------
(* Initial states *)

BuildProgs == {"polygot", "CREATE"}

Restrict(f, names) == [n \in names |-> f[n]]

Init ==
    /\ prog \in {"polygot", "CREATE", "merger"}
    /\ pc = IF prog = "merger" THEN "listing" ELSE "read"
    /\ book = <<>>
    /\ ngames = 0
    /\ nmerges = 0
    /\ \E names \in SUBSET FolderNames :
          folder = IF prog = "merger" THEN Restrict(Library, names)
                   ELSE IF prog = "polygot" THEN Restrict(Library, MergeNames)
                   ELSE Restrict(Library, {})
    /\ todo = IF prog = "merger" THEN DOMAIN folder ELSE {}
    /\ readlog = <<>>
    /\ entries = <<>>
    /\ written = 0
    /\ out = FileOf(OldBook)
    /\ raw = <<>>
    /\ ev = [op |-> "start"]
    /\ FetchIdle

-----------------------------------------------------------------------------
(* polygot.py and CREATE.py: build_book_file *)

\* one game read from the PGN file and aggregated
ReadGame(g) ==
    /\ prog \in BuildProgs
    /\ pc = "read"
    /\ ngames < MaxGames
    /\ book' = AggregateGame(prog, book, g)
    /\ ngames' = ngames + 1
    /\ UNCHANGED fetchvars
    /\ ev' = [op |-> "game", game |-> g]
    /\ UNCHANGED <<prog, pc, nmerges, folder, todo, readlog, entries, written,
                   out, raw>>

\* polygot.py Book.merge_file(path), every entry read
MergeFile(name) ==
    /\ prog = "polygot"
    /\ pc = "read"
    /\ nmerges < MaxMerges
    /\ book' = MergeEntries(prog, book, folder[name], Len(folder[name]))
    /\ nmerges' = nmerges + 1
    /\ readlog' = Append(readlog, [name |-> name, n |-> Len(folder[name])])
    /\ UNCHANGED fetchvars
    /\ ev' = [op |-> "merge", name |-> name]
    /\ UNCHANGED <<prog, pc, ngames, folder, todo, entries, written, out, raw>>

\* polygot.py Book.merge_file(path) when open_reader or the read of entry
\* n + 1 raises: nothing catches it, and the n entries before stay added
MergeFileRaises(name, n) ==
    /\ prog = "polygot"
    /\ pc = "read"
    /\ nmerges < MaxMerges
    /\ book' = MergeEntries(prog, book, folder[name], n)
    /\ nmerges' = nmerges + 1
    /\ readlog' = Append(readlog, [name |-> name, n |-> n])
    /\ pc' = "crashed"
    /\ UNCHANGED fetchvars
    /\ ev' = [op |-> "merge_raised", name |-> name]
    /\ UNCHANGED <<prog, ngames, folder, todo, entries, written, out, raw>>

\* book.normalize_weights(), once the PGN file is read to its end
Normalize ==
    /\ prog \in BuildProgs
    /\ pc = "read"
    /\ raw' = book
    /\ book' = normalize_weights(prog, book)
    /\ pc' = "normalized"
    /\ UNCHANGED fetchvars
    /\ ev' = [op |-> "normalize"]
    /\ UNCHANGED <<prog, ngames, nmerges, folder, todo, readlog, entries,
                   written, out>>

\* save_as_polyglot: with open(path, 'wb') as outfile
SaveOpen ==
    /\ prog \in BuildProgs
    /\ pc = "normalized"
    /\ out' = FileOf(<<>>)
    /\ pc' = "opened"
    /\ UNCHANGED fetchvars
    /\ ev' = [op |-> "open"]
    /\ UNCHANGED <<prog, book, ngames, nmerges, folder, todo, readlog, entries,
                   written, raw>>

\* save_as_polyglot: the entries built and sorted, the file already open
SaveBuild ==
    /\ prog \in BuildProgs
    /\ pc = "opened"
    /\ IF BuildRaises(prog, book)
       THEN pc' = "crashed" /\ UNCHANGED entries
       ELSE pc' = "writing" /\ entries' = SortEntries(EntriesOfBook(prog, book))
    /\ written' = 0
    /\ UNCHANGED fetchvars
    /\ ev' = [op |-> "build"]
    /\ UNCHANGED <<prog, book, ngames, nmerges, folder, todo, readlog, out, raw>>

-----------------------------------------------------------------------------
(* merger.py: merge_polyglot_books *)

\* if not book_files: return
NoBooks ==
    /\ prog = "merger"
    /\ pc = "listing"
    /\ DOMAIN folder = {}
    /\ pc' = "returned"
    /\ UNCHANGED fetchvars
    /\ ev' = [op |-> "return"]
    /\ UNCHANGED <<prog, book, ngames, nmerges, folder, todo, readlog, entries,
                   written, out, raw>>

\* one book_file read to its end inside the try block.  os.listdir gives
\* the files in an order of its own: any file not yet visited may come next.
MergeSource(name) ==
    /\ prog = "merger"
    /\ pc = "listing"
    /\ name \in todo
    /\ book' = MergeEntries(prog, book, folder[name], Len(folder[name]))
    /\ todo' = todo \ {name}
    /\ readlog' = Append(readlog, [name |-> name, n |-> Len(folder[name])])
    /\ UNCHANGED fetchvars
    /\ ev' = [op |-> "merge", name |-> name]
    /\ UNCHANGED <<prog, pc, ngames, nmerges, folder, entries, written, out, raw>>

\* one book_file whose open_reader or whose read of entry n + 1 raises: the
\* except clause prints the error and the loop goes on
MergeSourceRaises(name, n) ==
    /\ prog = "merger"
    /\ pc = "listing"
    /\ name \in todo
    /\ book' = MergeEntries(prog, book, folder[name], n)
    /\ todo' = todo \ {name}
    /\ readlog' = Append(readlog, [name |-> name, n |-> n])
    /\ UNCHANGED fetchvars
    /\ ev' = [op |-> "merge_raised", name |-> name]
    /\ UNCHANGED <<prog, pc, ngames, nmerges, folder, entries, written, out, raw>>

\* Book.save: the entries built and sorted, the file not yet open
MergerSaveBuild ==
    /\ prog = "merger"
    /\ pc = "listing"
    /\ DOMAIN folder # {}
    /\ todo = {}
    /\ IF BuildRaises(prog, book)
       THEN pc' = "crashed" /\ UNCHANGED entries
       ELSE pc' = "sorted" /\ entries' = SortEntries(EntriesOfBook(prog, book))
    /\ written' = 0
    /\ UNCHANGED fetchvars
    /\ ev' = [op |-> "build"]
    /\ UNCHANGED <<prog, book, ngames, nmerges, folder, todo, readlog, out, raw>>

\* Book.save: with open(path, "wb") as f
MergerSaveOpen ==
    /\ prog = "merger"
    /\ pc = "sorted"
    /\ out' = FileOf(<<>>)
    /\ pc' = "writing"
    /\ UNCHANGED fetchvars
    /\ ev' = [op |-> "open"]
    /\ UNCHANGED <<prog, book, ngames, nmerges, folder, todo, readlog, entries,
                   written, raw>>

-----------------------------------------------------------------------------
(* All three scripts: the records written, the file closed, a failure *)

\* outfile.write(entry) / f.writelines(entries), one record
SaveWrite ==
    /\ pc = "writing"
    /\ written < Len(entries)
    /\ out' = FileOf(Append(out.data, entries[written + 1]))
    /\ written' = written + 1
    /\ UNCHANGED fetchvars
    /\ ev' = [op |-> "write"]
    /\ UNCHANGED <<prog, pc, book, ngames, nmerges, folder, todo, readlog,
                   entries, raw>>

\* the with block left after the last record
SaveClose ==
    /\ pc = "writing"
    /\ written = Len(entries)
    /\ pc' = "done"
    /\ UNCHANGED fetchvars
    /\ ev' = [op |-> "close"]
    /\ UNCHANGED <<prog, book, ngames, nmerges, folder, todo, readlog, entries,
                   written, out, raw>>

\* the save operation fails (an error of the operating system on a write, an
\* interrupt) while records remain to be built or written: the exception
\* leaves the with block, which closes the file as it stands
SaveFails ==
    /\ \/ pc \in {"opened", "sorted"}
       \/ pc = "writing" /\ written < Len(entries)
    /\ pc' = "failed"
    /\ UNCHANGED fetchvars
    /\ ev' = [op |-> "save_failed"]
    /\ UNCHANGED <<prog, book, ngames, nmerges, folder, todo, readlog, entries,
                   written, out, raw>>

Next ==
    \/ \E g \in Games : ReadGame(g)
    \/ \E name \in MergeNames : MergeFile(name)
    \/ \E name \in RaisingNames : \E n \in 0..(Len(Library[name]) - 1) :
          MergeFileRaises(name, n)
    \/ Normalize
    \/ SaveOpen
    \/ SaveBuild
    \/ NoBooks
    \/ \E name \in FolderNames : MergeSource(name)
    \/ \E name \in FolderNames : \E n \in 0..(Len(Library[name]) - 1) :
          MergeSourceRaises(name, n)
    \/ MergerSaveBuild
    \/ MergerSaveOpen
    \/ SaveWrite
    \/ SaveClose
    \/ SaveFails

Spec == Init /\ [][Next]_vars

-----------------------------------------------------------------------------
(* The scripts in a row: polygot.py run on each chunk of the games, its     *)
(* bot.bin files collected in BOOK_FOLDER, merger.py run on the folder      *)

MaxChunks == 2

ChunkNames == {"chunk1.bin", "chunk2.bin", "chunk3.bin", "chunk4.bin"}

ChunkName(i) ==
    CASE i = 1 -> "chunk1.bin" [] i = 2 -> "chunk2.bin" [] i = 3 -> "chunk3.bin"
      [] OTHER -> "chunk4.bin"

\* the PGN files a chunk can be: one to MaxGames games
Chunks == UNION {[1..n -> Games] : n \in 1..MaxGames}

\* build_book_file's loop over the games of a PGN file
RECURSIVE AggregateGames(_, _, _)
AggregateGames(p, positions, gs) ==
    IF gs = <<>> THEN positions
    ELSE AggregateGames(p, AggregateGame(p, positions, Head(gs)), Tail(gs))

\* build_book_file(pgn_path, book_path): the records in the file it leaves
build_book_file(p, gs) ==
    SortEntries(EntriesOfBook(p, normalize_weights(p, AggregateGames(p, <<>>, gs))))

InitPipeline ==
    /\ prog = "pipeline"
    /\ pc = "chunking"
    /\ book = <<>>
    /\ ngames = 0
    /\ nmerges = 0
    /\ folder = Restrict(Library, {})
    /\ todo = {}
    /\ readlog = <<>>
    /\ entries = <<>>
    /\ written = 0
    /\ out = FileOf(OldBook)
    /\ raw = <<>>
    /\ ev = [op |-> "start"]
    /\ FetchIdle

\* polygot.py run on one chunk, its output put into the folder; raw is the
\* Book one pass over all the games so far accumulates
BuildChunk(gs) ==
    /\ prog = "pipeline"
    /\ pc = "chunking"
    /\ Cardinality(DOMAIN folder) < MaxChunks
    /\ LET name == ChunkName(Cardinality(DOMAIN folder) + 1)
       IN  folder' = [n \in DOMAIN folder \cup {name} |->
                        IF n = name THEN build_book_file("polygot", gs) ELSE folder[n]]
    /\ raw' = AggregateGames("polygot", raw, gs)
    /\ UNCHANGED fetchvars
    /\ ev' = [op |-> "chunk"]
    /\ UNCHANGED <<prog, pc, book, ngames, nmerges, todo, readlog, entries,
                   written, out>>

\* merger.py started on the folder
StartMerger ==
    /\ prog = "pipeline"
    /\ pc = "chunking"
    /\ DOMAIN folder # {}
    /\ prog' = "merger"
    /\ pc' = "listing"
    /\ todo' = DOMAIN folder
    /\ UNCHANGED fetchvars
    /\ ev' = [op |-> "start"]
    /\ UNCHANGED <<book, ngames, nmerges, folder, readlog, entries, written,
                   out, raw>>

NextPipeline ==
    \/ \E gs \in Chunks : BuildChunk(gs)
    \/ StartMerger
    \/ \E name \in ChunkNames : MergeSource(name)
    \/ MergerSaveBuild
    \/ MergerSaveOpen
    \/ SaveWrite
    \/ SaveClose

SpecPipeline == InitPipeline /\ [][NextPipeline]_vars

-----------------------------------------------------------------------------
(* What the properties below speak of *)

\* the fields of a 16-byte record as the format lays them out
RecordKey(e) == SubSeq(e, 1, 8)
RecordMove(e) == SubSeq(e, 9, 10)
RecordWeight(e) == FromBytes(e, 11, 12)

\* every (key_hex, uci) pair either Book holds
AllPairs(b1, b2) == PairsOf(b1) \cup PairsOf(b2)

\* the (key_hex, uci) pair under which a script records a ply
PlyPair(p, ply) ==
    <<format_zobrist_key_hex(ply.key),
      IF p = "CREATE" THEN correct_castling_uci(Uci(ply.move), ply.king)
      ELSE Uci(ply.move)>>

\* the (key_hex, uci) pair under which a script records an entry of a file
RecPair(rec) ==
    <<format_zobrist_key_hex(FromBytes(rec, 1, 8)),
      Uci(DecodeMove(FromBytes(rec, 9, 10)))>>

\* the records the save operation has to write for a pair
RecordsFor(data, q, move) ==
    {i \in 1..Len(data) :
        /\ RecordKey(data[i]) = BytesFromHex(q[1])
        /\ RecordMove(data[i]) = ToBytes2(mi(move))}

BookMoveOf(positions, q) ==
    LET i == PosIndex(positions, q[1])
    IN  positions[i].moves[MoveIndex(positions[i].moves, q[2])]

Classified == {"1-0", "0-1", "1/2-1/2"}

-----------------------------------------------------------------------------
(* C1: the records a completed save has written are in strictly ascending  *)
(* order of (8-byte fingerprint, 2-byte move field).  merge and build sort *)
(* on bytes 10..11, the weight, so this fails.                             *)

C1_RecordsAscendByKeyAndMove ==
    pc = "done" =>
        \A i \in 1..(Len(out.data) - 1) :
            PairLess(<<RecordKey(out.data[i]), RecordMove(out.data[i])>>,
                     <<RecordKey(out.data[i + 1]), RecordMove(out.data[i + 1])>>)

-----------------------------------------------------------------------------
(* C2: aggregating a game whose result is none of 1-0, 0-1, 1/2-1/2 changes *)
(* no weight of the Book.  score() reads such a result as 0, and a Black    *)
(* ply is credited 2 - 0, so this fails.                                    *)

C2_UnclassifiedGameChangesNoWeight ==
    [][(ev'.op = "game" /\ ev'.game.result \notin Classified) =>
          \A q \in AllPairs(book, book') :
              WeightOf(book', q[1], q[2]) = WeightOf(book, q[1], q[2])]_vars

-----------------------------------------------------------------------------
(* C3: a game with result 1-0, 1/2-1/2 or 0-1 adds, for each of its plies,  *)
(* 2, 1 or 0 when White moves and 0, 1 or 2 when Black moves; every weight  *)
(* of the Book is a non-negative integer, and no weight decreases while     *)
(* games are aggregated and files merged.                                   *)

ExpectedCredit(result, turn) ==
    CASE result = "1-0"     -> IF turn = WHITE THEN 2 ELSE 0
      [] result = "1/2-1/2" -> 1
      [] result = "0-1"     -> IF turn = WHITE THEN 0 ELSE 2

RECURSIVE GameCredit(_, _, _, _)
GameCredit(p, result, plies, q) ==
    IF plies = <<>> THEN 0
    ELSE (IF PlyPair(p, Head(plies)) = q THEN ExpectedCredit(result, Head(plies).turn)
          ELSE 0)
         + GameCredit(p, result, Tail(plies), q)

C3_CreditsAndMonotoneWeights ==
    [][/\ \A q \in PairsOf(book') : WeightOf(book', q[1], q[2]) \in Nat
       /\ (pc \in {"read", "listing"} /\ pc' \in {"read", "listing", "crashed"}) =>
             \A q \in AllPairs(book, book') :
                 WeightOf(book', q[1], q[2]) >= WeightOf(book, q[1], q[2])
       /\ (ev'.op = "game" /\ ev'.game.result \in Classified) =>
             \A q \in AllPairs(book, book') :
                 WeightOf(book', q[1], q[2]) =
                     WeightOf(book, q[1], q[2])
                     + GameCredit(prog, ev'.game.result, ev'.game.plies, q)]_vars

\* two games aggregated: Black's e7e5 has 0 from the game White won and 2
\* from the game Black won
C3_Witness ==
    /\ pc = "read"
    /\ ngames = 2
    /\ ev.op = "game"
    /\ ev.game.result = "0-1"
    /\ WeightOf(book, format_zobrist_key_hex(291), Uci(WhiteE2E4.move)) = 2
    /\ WeightOf(book, format_zobrist_key_hex(4660), Uci(BlackE7E5.move)) = 2

-----------------------------------------------------------------------------
(* C4: the weight a Book holds for a (fingerprint, move) pair after merging *)
(* is the sum of that pair's weights over everything merged into it, in     *)
(* whatever order the inputs came.                                          *)

\* the weight the first n entries of a file hold for a pair
RECURSIVE PartSum(_, _, _)
PartSum(recs, n, q) ==
    IF n = 0 THEN 0
    ELSE (IF RecPair(recs[n]) = q THEN FromBytes(recs[n], 11, 12) ELSE 0)
         + PartSum(recs, n - 1, q)

\* the weight all the entries read so far hold for a pair
RECURSIVE LogSum(_, _)
LogSum(log, q) ==
    IF log = <<>> THEN 0
    ELSE PartSum(folder[Head(log).name], Head(log).n, q) + LogSum(Tail(log), q)

\* every pair the entries read so far name
LogPairs(log) ==
    UNION {{RecPair(folder[log[l].name][i]) : i \in 1..log[l].n} : l \in 1..Len(log)}

MergedIsSum ==
    \A q \in PairsOf(book) \cup LogPairs(readlog) :
        WeightOf(book, q[1], q[2]) = LogSum(readlog, q)

C4_MergeIsSumOfInputs ==
    [][/\ readlog' # readlog =>
             \A q \in AllPairs(book, book') \cup LogPairs(readlog') :
                 WeightOf(book', q[1], q[2]) =
                     WeightOf(book, q[1], q[2])
                     + PartSum(folder[readlog'[Len(readlog')].name],
                               readlog'[Len(readlog')].n, q)
       /\ prog = "merger" => MergedIsSum']_vars

\* the three files merged, c.bin before a.bin: e2e4 holds 40000 + 40000 + 3
C4_Witness ==
    /\ prog = "merger"
    /\ Len(readlog) = 3
    /\ readlog[1].name = "c.bin"
    /\ readlog[2].name = "a.bin"
    /\ \A l \in 1..3 : readlog[l].n = Len(folder[readlog[l].name])
    /\ WeightOf(book, format_zobrist_key_hex(291), Uci(WhiteE2E4.move)) = 80003

-----------------------------------------------------------------------------
(* C5: the games split into chunks, each chunk aggregated into a Book of    *)
(* its own and those Books merged, give every (fingerprint, move) pair the  *)
(* raw weight one pass over all the games gives it.  The only way from a    *)
(* chunk's Book to the merge is the file build_book_file writes, after      *)
(* normalize_weights and the 16-bit clamp, so this fails.                   *)

C5_ChunkedMergeEqualsSinglePass ==
    (prog = "merger" /\ todo = {}) =>
        \A q \in AllPairs(book, raw) :
            WeightOf(book, q[1], q[2]) = WeightOf(raw, q[1], q[2])

-----------------------------------------------------------------------------
(* C6: every record a save operation writes has a weight in 1..65535; a     *)
(* pair of weight 0 gets no record, a weight above 65535 is written as      *)
(* 65535.  Book.save of merger.py writes a pair of weight 0, so this fails. *)

C6_WrittenWeightsIn1To65535 ==
    /\ \A i \in 1..Len(out.data) : RecordWeight(out.data[i]) \in 1..65535
    /\ pc = "done" =>
          \A q \in PairsOf(book) :
              LET w    == WeightOf(book, q[1], q[2])
                  recs == RecordsFor(out.data, q,
                                     SavedMove(prog, BookMoveOf(book, q)))
              IN  /\ w = 0 => recs = {}
                  /\ w > 65535 =>
                        \E i \in recs : RecordWeight(out.data[i]) = 65535

-----------------------------------------------------------------------------
(* C7: after normalize_weights, a position whose total was positive has a   *)
(* total of at most MAX_BOOK_WEIGHT.  polygot.py lifts every scaled weight  *)
(* below 1 to 1, a raw weight of 0 included, so this fails.                 *)

C7_NormalizedTotalAtMostTarget ==
    \A i \in 1..Len(raw) :
        SumWeights(raw[i].moves) > 0 =>
            SumWeights(book[i].moves) <= MAX_BOOK_WEIGHT(prog)

-----------------------------------------------------------------------------
(* C8: in polygot.py a move whose weight was positive before                *)
(* normalize_weights has a weight of at least 1 after it, and a record in   *)
(* the file once save_as_polyglot is done.                                  *)

C8_PositiveMovesSurvive ==
    prog = "polygot" =>
        \A q \in PairsOf(raw) :
            WeightOf(raw, q[1], q[2]) > 0 =>
                /\ WeightOf(book, q[1], q[2]) >= 1
                /\ pc = "done" =>
                      RecordsFor(out.data, q, BookMoveOf(book, q).move) # {}

\* wide.bin merged: g1f3 has 1 of a total above MAX_BOOK_WEIGHT, scales to
\* 0, is lifted to 1 and written
C8_Witness ==
    LET q == <<format_zobrist_key_hex(291), Uci(DecodeMove(RawG1F3))>>
    IN  /\ prog = "polygot"
        /\ pc = "done"
        /\ WeightOf(raw, q[1], q[2]) = 1
        /\ Scale(1, SumWeights(raw[PosIndex(raw, q[1])].moves),
                 MAX_BOOK_WEIGHT(prog)) = 0
        /\ WeightOf(book, q[1], q[2]) = 1
        /\ \E i \in 1..Len(out.data) :
              /\ RecordMove(out.data[i]) = ToBytes2(RawG1F3)
              /\ RecordWeight(out.data[i]) = 1

-----------------------------------------------------------------------------
(* C9: when a save operation fails, the file at the output path is the one  *)
(* that was there before or a complete sorted book.  save_as_polyglot opens *)
(* the path for writing before it builds a record and Book.save writes      *)
(* straight into it, so this fails.                                         *)

C9_FailedSaveLeavesOldOrCompleteFile ==
    pc = "failed" =>
        \/ out = FileOf(OldBook)
        \/ out = FileOf(SortEntries(EntriesOfBook(prog, book)))

-----------------------------------------------------------------------------
(* C10: a merge source whose read fails, on open or after some entries, is  *)
(* skipped as a whole: the merge goes on, and the merged weights are the    *)
(* sums over the sources read to their end.  The entries read before the    *)
(* failure stay in the Book (merger.py), and merge_file of polygot.py lets  *)
(* the exception end the run, so this fails.                                *)

\* the weight the files read to their end hold for a pair
RECURSIVE ReadableSum(_, _)
ReadableSum(log, q) ==
    IF log = <<>> THEN 0
    ELSE (IF Head(log).n = Len(folder[Head(log).name])
          THEN PartSum(folder[Head(log).name], Head(log).n, q) ELSE 0)
         + ReadableSum(Tail(log), q)

C10_FailedSourceContributesNothing ==
    /\ ev.op = "merge_raised" => pc # "crashed"
    /\ prog = "merger" =>
          \A q \in PairsOf(book) \cup LogPairs(readlog) :
              WeightOf(book, q[1], q[2]) = ReadableSum(readlog, q)

-----------------------------------------------------------------------------
(* C11: a castling move is recorded in the Book, and written to the file,   *)
(* in the king-square -> rook-square form (e1h1, e1a1, e8h8, e8a8): where a *)
(* king stands on the source square, no pair and no record has the          *)
(* king-to-destination form (e1g1, e1c1, e8g8, e8c8).  Only CREATE.py        *)
(* corrects the move: polygot.py records move.uci() as python-chess gives   *)
(* it, and merger.py records what entry.move() returns, so this fails.      *)

\* the four castling moves as the king's move to its destination
KingToDestination ==
    {Move(E1, G1, PieceType.none), Move(E1, C1, PieceType.none),
     Move(E8, G8, PieceType.none), Move(E8, C8, PieceType.none)}

\* the positions of the games in which the king castles, each with the move
\* in its king-to-destination form
CastlingPlies ==
    UNION {{g.plies[i] : i \in {k \in 1..Len(g.plies) :
                                  /\ g.plies[k].king
                                  /\ g.plies[k].move \in KingToDestination}} :
           g \in Games}

C11_CastlingRecordedAsKingToRook ==
    \A ply \in CastlingPlies :
        LET q == <<format_zobrist_key_hex(ply.key), Uci(ply.move)>>
        IN  /\ q \notin PairsOf(book)
            /\ pc = "done" => RecordsFor(out.data, q, ply.move) = {}

-----------------------------------------------------------------------------
(* The move field on its own: one move of the move space handed to the save *)
(* operation of each script, and the field read back from the record        *)

\* chess.SQUARES
Squares == {Square(file, rank) : file \in 0..7, rank \in 0..7}

\* the values move.promotion can take: None or a python-chess piece type
Promotions ==
    {PieceType.none, PieceType.pawn, PieceType.knight, PieceType.bishop,
     PieceType.rook, PieceType.queen, PieceType.king}

\* the fields of a stored move as the reader takes them apart, before the
\* castling squares are rewritten
RawMoveFields(raw_move) ==
    LET promotion_part == (raw_move \div 4096) % 8
    IN  Move((raw_move \div 64) % 64, raw_move % 64,
             IF promotion_part # 0 THEN promotion_part + 1 ELSE PieceType.none)

\* a Book that holds one move, as get_move(uci) and bm.move = move leave it
InitCodec ==
    /\ prog \in {"polygot", "CREATE", "merger"}
    /\ pc = "codec"
    /\ \E f \in Squares, t \in Squares, pr \in Promotions :
          book = <<[key   |-> format_zobrist_key_hex(291),
                    moves |-> <<[uci |-> Uci(Move(f, t, pr)), weight |-> 1,
                                 move |-> Move(f, t, pr)]>>]>>
    /\ ngames = 0
    /\ nmerges = 0
    /\ folder = Restrict(Library, {})
    /\ todo = {}
    /\ readlog = <<>>
    /\ entries = <<>>
    /\ written = 0
    /\ out = FileOf(OldBook)
    /\ raw = <<>>
    /\ ev = [op |-> "start"]
    /\ FetchIdle

\* the loop of the save operation that builds `entries`: no line of it looks
\* at the value of move.promotion beyond its truth
EncodeMove ==
    /\ pc = "codec"
    /\ ~BuildRaises(prog, book)
    /\ entries' = SortEntries(EntriesOfBook(prog, book))
    /\ pc' = "encoded"
    /\ UNCHANGED fetchvars
    /\ ev' = [op |-> "encode"]
    /\ UNCHANGED <<prog, book, ngames, nmerges, folder, todo, readlog, written,
                   out, raw>>

\* the move field of the record read back
DecodeEntry ==
    /\ pc = "encoded"
    /\ pc' = "decoded"
    /\ UNCHANGED fetchvars
    /\ ev' = [op |-> "decode",
              move |-> RawMoveFields(ReadEntry(entries[1]).raw_move)]
    /\ UNCHANGED <<prog, book, ngames, nmerges, folder, todo, readlog, entries,
                   written, out, raw>>

NextCodec ==
    \/ EncodeMove
    \/ DecodeEntry

SpecCodec == InitCodec /\ [][NextCodec]_vars

-----------------------------------------------------------------------------
(* C12: the move field the save operations write holds the destination      *)
(* square in bits 0-5, the source square in bits 6-11, the promotion code   *)
(* in bits 12-14 (0 none, 1 knight, 2 bishop, 3 rook, 4 queen) and 0 in bit *)
(* 15, and the move read back from the field is the move encoded, for every *)
(* source and destination square and each of the five promotions; a left    *)
(* inverse makes the encoding injective.                                    *)

\* the promotions of the move space
CodecPromotions ==
    {PieceType.none, PieceType.knight, PieceType.bishop, PieceType.rook,
     PieceType.queen}

\* the promotion code of the format
PromotionCode(promotion) ==
    CASE promotion = PieceType.none   -> 0
      [] promotion = PieceType.knight -> 1
      [] promotion = PieceType.bishop -> 2
      [] promotion = PieceType.rook   -> 3
      [] promotion = PieceType.queen  -> 4

\* the move handed to the encoder
CodecMove == book[1].moves[1].move

-----------------------------------------------------------------------------
(* C13: a move whose promotion piece is a pawn or a king is never encoded   *)
(* into a record: the save fails instead.  The save operations test only    *)
(* `if move.promotion`, so a pawn is written as no promotion and a king as  *)
(* promotion code 5, and this fails.                                        *)

C13_InvalidPromotionNeverEncoded ==
    CodecMove.promotion \in {PieceType.pawn, PieceType.king} => entries = <<>>

-----------------------------------------------------------------------------
(* pngmaker.py: main runs fetch_bot_games for every bot on a thread pool;   *)
(* the threads share seen_games.  A thread can be switched out between any  *)
(* two bytecodes, so the test `game_id not in seen_games` and the call      *)
(* seen_games.add(game_id) are separate steps.                              *)

\* one game of the PGN text: its [Site], [White], [Black], [Result] tags,
\* and whether all four are there
PgnGame(id, white, black, result, tagged) ==
    [id |-> id, white |-> white, black |-> black, result |-> result,
     tagged |-> tagged]

\* the games the server holds: bot against bot, a player that is no bot, an
\* unfinished game, a game without a [Site] tag
LichessGames ==
    << PgnGame("gameAAAA", BOTS[1], BOTS[2], "1-0", TRUE),
       PgnGame("gameBBBB", BOTS[2], BOTS[3], "1/2-1/2", TRUE),
       PgnGame("gameCCCC", BOTS[3], "human", "0-1", TRUE),
       PgnGame("gameDDDD", BOTS[1], BOTS[3], "*", TRUE),
       PgnGame("gameEEEE", BOTS[3], BOTS[1], "0-1", FALSE) >>

\* r.text for a bot: the games it played in
Feed(b) == SelectSeq(LichessGames, LAMBDA g : g.white = b \/ g.black = b)

InBOTS(name) == \E i \in 1..Len(BOTS) : BOTS[i] = name

\* the conditions of split_and_filter_games before the test of seen_games
Kept(game) ==
    /\ game.tagged
    /\ InBOTS(game.white) /\ InBOTS(game.black)
    /\ \/ game.result = "1-0" /\ InBOTS(game.white)
       \/ game.result = "0-1" /\ InBOTS(game.black)
       \/ game.result = "1/2-1/2"

\* the threads that run a call of fetch_bot_games
Running == {b \in Bots : wpc[b] \in {"get", "loop", "add"}}

BotIndex(b) == CHOOSE i \in 1..Len(BOTS) : BOTS[i] = b

InitFetch ==
    /\ prog = "pngmaker"
    /\ pc = "pool"
    /\ book = <<>>
    /\ ngames = 0
    /\ nmerges = 0
    /\ folder = Restrict(Library, {})
    /\ todo = {}
    /\ readlog = <<>>
    /\ entries = <<>>
    /\ written = 0
    /\ out = [exists |-> FALSE, data |-> <<>>]
    /\ raw = <<>>
    /\ ev = [op |-> "start"]
    /\ FetchIdle

\* a pool thread takes the next call from the queue executor.map filled
StartFetch(b) ==
    /\ prog = "pngmaker"
    /\ pc = "pool"
    /\ wpc[b] = "queued"
    /\ \A c \in Bots : BotIndex(c) < BotIndex(b) => wpc[c] # "queued"
    /\ Cardinality(Running) < MAX_WORKERS
    /\ wpc' = [wpc EXCEPT ![b] = "get"]
    /\ ev' = [op |-> "start_fetch", bot |-> b]
    /\ UNCHANGED <<prog, pc, book, ngames, nmerges, folder, todo, readlog,
                   entries, written, out, raw, seen_games, attempt, idx,
                   filtered, all_games>>

\* requests.get answers 429 or raises: the next attempt, [] after the third
FetchRetry(b) ==
    /\ prog = "pngmaker"
    /\ wpc[b] = "get"
    /\ attempt' = [attempt EXCEPT ![b] = @ + 1]
    /\ wpc' = [wpc EXCEPT ![b] = IF attempt[b] + 1 >= 3 THEN "returned" ELSE "get"]
    /\ ev' = [op |-> "retry", bot |-> b]
    /\ UNCHANGED <<prog, pc, book, ngames, nmerges, folder, todo, readlog,
                   entries, written, out, raw, seen_games, idx, filtered,
                   all_games>>

\* requests.get answers 404 or another status that is not 200: return []
FetchFails(b) ==
    /\ prog = "pngmaker"
    /\ wpc[b] = "get"
    /\ wpc' = [wpc EXCEPT ![b] = "returned"]
    /\ ev' = [op |-> "fetch_failed", bot |-> b]
    /\ UNCHANGED <<prog, pc, book, ngames, nmerges, folder, todo, readlog,
                   entries, written, out, raw, seen_games, attempt, idx,
                   filtered, all_games>>

\* requests.get answers 200: split_and_filter_games(r.text) starts
FetchOk(b) ==
    /\ prog = "pngmaker"
    /\ wpc[b] = "get"
    /\ wpc' = [wpc EXCEPT ![b] = "loop"]
    /\ idx' = [idx EXCEPT ![b] = 1]
    /\ filtered' = [filtered EXCEPT ![b] = <<>>]
    /\ ev' = [op |-> "fetched", bot |-> b]
    /\ UNCHANGED <<prog, pc, book, ngames, nmerges, folder, todo, readlog,
                   entries, written, out, raw, seen_games, attempt, all_games>>

\* one game of the loop up to `if game_id not in seen_games`
CheckGame(b) ==
    /\ prog = "pngmaker"
    /\ wpc[b] = "loop"
    /\ idx[b] <= Len(Feed(b))
    /\ LET game == Feed(b)[idx[b]]
       IN  IF Kept(game) /\ game.id \notin seen_games
           THEN /\ wpc' = [wpc EXCEPT ![b] = "add"]
                /\ idx' = idx
           ELSE /\ wpc' = wpc
                /\ idx' = [idx EXCEPT ![b] = @ + 1]
    /\ ev' = [op |-> "check", bot |-> b]
    /\ UNCHANGED <<prog, pc, book, ngames, nmerges, folder, todo, readlog,
                   entries, written, out, raw, seen_games, attempt, filtered,
                   all_games>>

\* seen_games.add(game_id); filtered.append(game.strip())
AddGame(b) ==
    /\ prog = "pngmaker"
    /\ wpc[b] = "add"
    /\ seen_games' = seen_games \cup {Feed(b)[idx[b]].id}
    /\ filtered' = [filtered EXCEPT ![b] = Append(@, Feed(b)[idx[b]])]
    /\ idx' = [idx EXCEPT ![b] = @ + 1]
    /\ wpc' = [wpc EXCEPT ![b] = "loop"]
    /\ ev' = [op |-> "add", bot |-> b]
    /\ UNCHANGED <<prog, pc, book, ngames, nmerges, folder, todo, readlog,
                   entries, written, out, raw, attempt, all_games>>

\* return filtered
ReturnGames(b) ==
    /\ prog = "pngmaker"
    /\ wpc[b] = "loop"
    /\ idx[b] > Len(Feed(b))
    /\ wpc' = [wpc EXCEPT ![b] = "returned"]
    /\ ev' = [op |-> "return_games", bot |-> b]
    /\ UNCHANGED <<prog, pc, book, ngames, nmerges, folder, todo, readlog,
                   entries, written, out, raw, seen_games, attempt, idx,
                   filtered, all_games>>

\* the results of the calls, in the order of BOTS
RECURSIVE ExtendAll(_)
ExtendAll(n) ==
    IF n = 0 THEN <<>>
    ELSE ExtendAll(n - 1) \o (IF BOTS[n] \in Bots THEN filtered[BOTS[n]] ELSE <<>>)

\* main after the pool has shut down: all_games.extend(games) for every
\* result, then the PGN file is written
CollectGames ==
    /\ prog = "pngmaker"
    /\ pc = "pool"
    /\ \A b \in Bots : wpc[b] = "returned"
    /\ all_games' = ExtendAll(Len(BOTS))
    /\ out' = FileOf(all_games')
    /\ pc' = "done"
    /\ ev' = [op |-> "collect"]
    /\ UNCHANGED <<prog, book, ngames, nmerges, folder, todo, readlog, entries,
                   written, raw, seen_games, wpc, attempt, idx, filtered>>

NextFetch ==
    \/ \E b \in Bots : StartFetch(b)
    \/ \E b \in Bots : FetchRetry(b)
    \/ \E b \in Bots : FetchFails(b)
    \/ \E b \in Bots : FetchOk(b)
    \/ \E b \in Bots : CheckGame(b)
    \/ \E b \in Bots : AddGame(b)
    \/ \E b \in Bots : ReturnGames(b)
    \/ CollectGames

SpecFetch == InitFetch /\ [][NextFetch]_vars

-----------------------------------------------------------------------------
(* C14: under every interleaving of the fetch_bot_games calls on the thread *)
(* pool, a game id is appended to the collected games at most once across   *)
(* all workers.  Two workers can both pass `game_id not in seen_games` for  *)
(* the same id before either adds it, so this fails.                        *)

\* where a game id stands in the lists of the workers
KeptAt(id) ==
    UNION {{<<b, i>> : i \in {k \in 1..Len(filtered[b]) : filtered[b][k].id = id}} :
           b \in Bots}

C14_GameIdAppendedAtMostOnce ==
    \A n \in 1..Len(LichessGames) :
        /\ Cardinality(KeptAt(LichessGames[n].id)) <= 1
        /\ Cardinality({i \in 1..Len(all_games) :
                           all_games[i].id = LichessGames[n].id}) <= 1

=============================================================================
